---- MODULE Spec2Model ----
(***************************************************************************)
(* web-to-json (src/main.rs): the markup reducer (parse_html_sync,         *)
(* parse_children, parse_table, clean_text), the one-hop subpage expander  *)
(* (fetch_subpages_for_depth_one) and the batch loop of process_form.      *)
(*                                                                         *)
(* Strings are tuples of one-character strings.  Option<T> is a tuple of   *)
(* length 0 (None) or 1 (Some).  A parsed HTML node is a record            *)
(* [kind, name, attrs, kids, text]; a DomContent is a record whose type    *)
(* field is "Node" or "Table".                                             *)
(***************************************************************************)
EXTENDS Integers, Sequences, FiniteSets, TLC

VARIABLES
    pc,        \* position of the operation under check
    doc,       \* the parsed input element (scraper tree) handed to the reducer
    out,       \* what the reducer returned
    root,      \* root_content, the tree fetch_subpages_for_depth_one mutates
    base,      \* parsed_url, the base URL of the expansion
    stack,     \* its stack of node pointers (paths from the root)
    visits,    \* the pointers popped so far, in order
    fetches,   \* the fetches issued so far and how each ended
    ret,       \* the Result the expansion returned
    form,      \* the submitted UrlForm
    url_list,  \* process_form: the trimmed non-empty lines
    idx,       \* process_form: how many entries of url_list are done
    results,   \* process_form: the result list
    seen       \* what the network gave for each entry of url_list handled so far

vars == <<pc, doc, out, root, base, stack, visits, fetches, ret,
          form, url_list, idx, results, seen>>
walkVars == <<root, stack, visits, fetches, ret>>
batchVars == <<form, url_list, idx, results, seen>>

None == <<>>
Some(x) == <<x>>

----------------------------------------------------------------------------
(* The parsed HTML tree (scraper::Html / ElementRef / Node).               *)

El(name, attrs, kids) ==
    [kind |-> "el", name |-> name, attrs |-> attrs, kids |-> kids, text |-> <<>>]
Txt(raw) ==
    [kind |-> "text", name |-> "", attrs |-> <<>>, kids |-> <<>>, text |-> raw]
Comment ==
    [kind |-> "comment", name |-> "", attrs |-> <<>>, kids |-> <<>>, text |-> <<>>]

----------------------------------------------------------------------------
(* The output tree (DomContent, DomNode, TableData).                       *)

DomNode(tag, href, text, children, link_subpage) ==
    [type |-> "Node", tag |-> tag, href |-> href, text |-> text,
     children |-> children, link_subpage |-> link_subpage]
TableData(headers, rows) ==
    [type |-> "Table", table_headers |-> headers, rows |-> rows]

----------------------------------------------------------------------------
(* clean_text: newline -> space, \s+ -> one space, trim.                   *)

IsWhitespace(c) == c \in {" ", "\n", "\r", "\t"}

RECURSIVE ReplaceNewline(_)
ReplaceNewline(s) ==
    IF s = <<>> THEN <<>>
    ELSE <<IF Head(s) = "\n" THEN " " ELSE Head(s)>> \o ReplaceNewline(Tail(s))

RECURSIVE CollapseWs(_)
CollapseWs(s) ==
    IF s = <<>> THEN <<>>
    ELSE IF IsWhitespace(Head(s))
         THEN IF Len(s) > 1 /\ IsWhitespace(s[2])
              THEN CollapseWs(Tail(s))
              ELSE <<" ">> \o CollapseWs(Tail(s))
         ELSE <<Head(s)>> \o CollapseWs(Tail(s))

RECURSIVE TrimStart(_)
TrimStart(s) ==
    IF s # <<>> /\ IsWhitespace(Head(s)) THEN TrimStart(Tail(s)) ELSE s

RECURSIVE TrimEnd(_)
TrimEnd(s) ==
    IF s # <<>> /\ IsWhitespace(s[Len(s)])
    THEN TrimEnd(SubSeq(s, 1, Len(s) - 1)) ELSE s

Trim(s) == TrimEnd(TrimStart(s))

clean_text(raw) == Trim(CollapseWs(ReplaceNewline(raw)))

----------------------------------------------------------------------------
(* Tag classification.                                                     *)

to_lowercase(name) ==
    CASE name = "A" -> "a" [] name = "DIV" -> "div" [] name = "P" -> "p"
      [] name = "NAV" -> "nav" [] name = "TABLE" -> "table"
      [] name = "HREF" -> "href" [] name = "Href" -> "href"
      [] OTHER -> name

eq_ignore_ascii_case(x, y) == to_lowercase(x) = to_lowercase(y)

skip_tag(tag_name) ==
    tag_name \in {"script", "style", "meta", "link", "noscript",
                  "svg", "iframe", "nav", "footer", "header"}

is_target_tag(tag_name) ==
    tag_name \in {"h1", "h2", "h3", "h4", "h5", "h6", "p", "ul", "ol", "li", "a"}

----------------------------------------------------------------------------
(* scraper selectors: ElementRef::select walks the descendants of an       *)
(* element in document order; ElementRef::text yields every descendant     *)
(* text node.                                                              *)

RECURSIVE Descendants(_)
Descendants(el) ==
    LET RECURSIVE Walk(_)
        Walk(kids) ==
            IF kids = <<>> THEN <<>>
            ELSE <<Head(kids)>> \o Descendants(Head(kids)) \o Walk(Tail(kids))
    IN  Walk(el.kids)

Select(el, names) ==
    SelectSeq(Descendants(el), LAMBDA n : n.kind = "el" /\ n.name \in names)

RECURSIVE ConcatAll(_)
ConcatAll(ss) == IF ss = <<>> THEN <<>> ELSE Head(ss) \o ConcatAll(Tail(ss))

ElementText(el) ==
    LET texts == SelectSeq(Descendants(el), LAMBDA n : n.kind = "text")
    IN  ConcatAll([i \in 1..Len(texts) |-> texts[i].text])

----------------------------------------------------------------------------
(* parse_table.                                                            *)

RECURSIVE Decimal(_)
Decimal(n) ==
    LET d == <<"0", "1", "2", "3", "4", "5", "6", "7", "8", "9">>
    IN  IF n < 10 THEN <<d[n + 1]>> ELSE Decimal(n \div 10) \o <<d[(n % 10) + 1]>>

\* format!("col{i}")
ColName(i) == <<"c", "o", "l">> \o Decimal(i)

\* serde_json::Map::insert: a later insert of the same key replaces the value
MapInsert(m, k, v) == [x \in (DOMAIN m) \cup {k} |-> IF x = k THEN v ELSE m[x]]

EmptyMap == [x \in {} |-> <<>>]

\* cells of one row: clean_text of the full text of every th/td below the row
RowCells(tr_el) ==
    LET cs == Select(tr_el, {"th", "td"})
    IN  [i \in 1..Len(cs) |-> clean_text(ElementText(cs[i]))]

\* RowObject as it would be if an earlier cell kept its key
RowObject_KeepsFirst(headers, cells) ==
    LET RECURSIVE Fill(_, _)
        Fill(i, obj_map) ==
            IF i >= Len(cells) THEN obj_map
            ELSE LET col_name == IF i < Len(headers) THEN headers[i + 1] ELSE ColName(i)
                 IN  Fill(i + 1, IF col_name \in DOMAIN obj_map THEN obj_map
                                 ELSE MapInsert(obj_map, col_name, cells[i + 1]))
    IN  Fill(0, EmptyMap)

\* the data-row branch: for (i, val) in cells.iter().enumerate(), i from 0
RowObject(headers, cells) ==
    LET RECURSIVE Fill(_, _)
        Fill(i, obj_map) ==
            IF i >= Len(cells) THEN obj_map
            ELSE LET col_name == IF i < Len(headers) THEN headers[i + 1] ELSE ColName(i)
                 IN  Fill(i + 1, MapInsert(obj_map, col_name, cells[i + 1]))
    IN  Fill(0, EmptyMap)

parse_table(table_el) ==
    LET trs == Select(table_el, {"tr"})
        RECURSIVE Rows(_, _, _, _)
        Rows(k, headers, rows, first_row) ==
            IF k > Len(trs) THEN TableData(headers, rows)
            ELSE LET cells == RowCells(trs[k])
                 IN  IF cells = <<>> THEN Rows(k + 1, headers, rows, first_row)
                     ELSE IF first_row THEN Rows(k + 1, cells, rows, FALSE)
                     ELSE Rows(k + 1, headers, Append(rows, RowObject(headers, cells)), FALSE)
    IN  Rows(1, <<>>, <<>>, TRUE)

----------------------------------------------------------------------------
(* parse_children and parse_html_sync.                                     *)

\* the loop over e.attrs() of an anchor: every matching attribute assigns link
AnchorHref(attrs) ==
    LET RECURSIVE Scan(_, _)
        Scan(i, link) ==
            IF i > Len(attrs) THEN link
            ELSE IF eq_ignore_ascii_case(attrs[i][1], "href")
                 THEN Scan(i + 1, Some(attrs[i][2]))
                 ELSE Scan(i + 1, link)
    IN  Scan(1, None)

RECURSIVE parse_children(_)

\* RetainResult as it would be if the href were read for every retained tag
RetainResult_AnyTagLink(child, tag_name) ==
    <<DomNode(Some(tag_name), AnchorHref(child.attrs), None, parse_children(child), None)>>

\* is_target_tag branch: one node for the element
RetainResult(child, tag_name) ==
    LET link == IF tag_name = "a" THEN AnchorHref(child.attrs) ELSE None
    IN  <<DomNode(Some(tag_name), link, None, parse_children(child), None)>>

\* TransparentResult as it would be if the element kept a node of its own
TransparentResult_Nested(child) ==
    <<DomNode(Some(child.name), None, None, parse_children(child), None)>>

\* else branch: result.extend(parse_children(sub_el))
TransparentResult(child) == parse_children(child)

\* Node::Text branch
TextResult(child) ==
    LET c == clean_text(child.text)
    IN  IF c # <<>> THEN <<DomNode(None, None, Some(c), <<>>, None)>> ELSE <<>>

\* what one child of the element adds to result
ChildResult(child) ==
    IF child.kind = "el"
    THEN LET tag_name == to_lowercase(child.name)
         IN  IF skip_tag(tag_name) THEN <<>>
             ELSE IF tag_name = "table" THEN <<parse_table(child)>>
             ELSE IF is_target_tag(tag_name) THEN RetainResult(child, tag_name)
             ELSE TransparentResult(child)
    ELSE IF child.kind = "text" THEN TextResult(child)
    ELSE <<>>

parse_children(el) ==
    LET RECURSIVE Loop(_, _)
        Loop(i, result) ==
            IF i > Len(el.kids) THEN result
            ELSE Loop(i + 1, result \o ChildResult(el.kids[i]))
    IN  Loop(1, <<>>)

NoHtmlText == <<"(", "N", "o", " ", "<", "h", "t", "m", "l", ">", " ",
                "f", "o", "u", "n", "d", ")">>

\* body is the parsed document: Some(html element) or None when the
\* selector "html" matches nothing
parse_html_sync(body) ==
    IF body # None
    THEN DomNode(Some("html"), None, None, parse_children(body[1]), None)
    ELSE DomNode(Some("html"), None, Some(NoHtmlText), <<>>, None)

----------------------------------------------------------------------------
(* Inputs of the reducer: every forest of at most MaxNodes nodes over a    *)
(* small alphabet of elements and leaves, below an html root; elements     *)
(* with every attribute list of at most MaxAttrs attributes; and the       *)
(* documents of the specification's examples.                              *)

MaxNodes == 3
MaxAttrs == 2

\* <table><tr><td><script>X</script>k</td></tr><tr><td>v</td></tr></table>
ScriptCellTable ==
    El("table", <<>>, <<
        El("tr", <<>>, <<El("td", <<>>, <<El("script", <<>>, <<Txt(<<"X">>)>>), Txt(<<"k">>)>>)>>),
        El("tr", <<>>, <<El("td", <<>>, <<Txt(<<"v">>)>>)>>) >>)

\* The input families are listed as sequences, each input once.
RECURSIVE Cat(_)
Cat(ss) == IF ss = <<>> THEN <<>> ELSE Head(ss) \o Cat(Tail(ss))

\* Op(a, b) for every a of A and b of B
Product(A, B, Op(_, _)) ==
    [i \in 1..(Len(A) * Len(B)) |->
        Op(A[((i - 1) \div Len(B)) + 1], B[((i - 1) % Len(B)) + 1])]

\* the trees and the forests of exactly n nodes; an inner label is <<tag, attrs>>
RECURSIVE TreesOfSize(_, _, _), ForestsOfSize(_, _, _)
TreesOfSize(leaves, inner, n) ==
    IF n = 1
    THEN leaves \o [i \in 1..Len(inner) |-> El(inner[i][1], inner[i][2], <<>>)]
    ELSE Product(inner, ForestsOfSize(leaves, inner, n - 1),
                 LAMBDA t, f : El(t[1], t[2], f))
ForestsOfSize(leaves, inner, n) ==
    IF n = 0 THEN << <<>> >>
    ELSE Cat([k \in 1..n |->
                Product(TreesOfSize(leaves, inner, k), ForestsOfSize(leaves, inner, n - k),
                        LAMBDA t, f : <<t>> \o f)])

ForestsUpTo(leaves, inner, n) == Cat([k \in 1..(n + 1) |-> ForestsOfSize(leaves, inner, k - 1)])

\* the sequences over the members of S of length n, and of length at most n
RECURSIVE SeqsOfLen(_, _)
SeqsOfLen(S, n) ==
    IF n = 0 THEN << <<>> >>
    ELSE Product(SeqsOfLen(S, n - 1), S, LAMBDA q, x : Append(q, x))

SeqsUpTo(S, n) == Cat([k \in 1..(n + 1) |-> SeqsOfLen(S, k - 1)])

LeafNodes ==
    << Txt(<<"A">>), Txt(<<" ", "B", "\n", " ", "C">>), Txt(<<"\n", " ">>), Comment,
       ScriptCellTable >>

InnerLabels ==
    << <<"div", <<>> >>, <<"p", <<>> >>, <<"nav", <<>> >>,
       <<"a", <<<<"href", <<"/", "1">> >>>> >> >>

Forests == ForestsUpTo(LeafNodes, InnerLabels, MaxNodes)

Attributes == << <<"href", <<"/", "1">> >>, <<"href", <<"/", "2">> >>, <<"id", <<"i">> >> >>

AttrElements ==
    Product(<<"a", "p">>, SeqsUpTo(Attributes, MaxAttrs),
            LAMBDA t, attrs : El(t, attrs, <<Txt(<<"A">>)>>))

AttrForests ==
    Cat(<< [i \in 1..Len(AttrElements) |-> <<AttrElements[i]>>],
           [i \in 1..Len(AttrElements) |-> <<El("div", <<>>, <<AttrElements[i]>>)>>],
           [i \in 1..Len(AttrElements) |->
               <<El("nav", <<>>, <<AttrElements[i]>>), AttrElements[i]>>] >>)

\* <div><p>A</p><p>B</p></div>
FlattenExample ==
    <<El("div", <<>>, <<El("p", <<>>, <<Txt(<<"A">>)>>), El("p", <<>>, <<Txt(<<"B">>)>>)>>)>>

\* <h1>Title</h1><p>Line1\nLine2</p>, and a table cell below a div holding a nav
ExampleForests ==
    << FlattenExample,
      <<El("h1", <<>>, <<Txt(<<"T">>)>>), El("p", <<>>, <<Txt(<<"L", "\n", "M">>)>>)>>,
      <<Txt(<<"A">>), El("div", <<>>, <<El("div", <<>>, <<El("p", <<>>, <<Txt(<<"B">>)>>)>>),
                                        El("nav", <<>>, <<El("p", <<>>, <<Txt(<<"X">>)>>)>>),
                                        Txt(<<"C">>)>>), El("p", <<>>, <<>>)>> >>

ReduceDocs ==
    LET fs == Forests \o AttrForests \o ExampleForests
    IN  [i \in 1..Len(fs) |-> Some(El("html", <<>>, fs[i]))]

\* before fetch_subpages_for_depth_one is called
ExpandIdle ==
    /\ root = None
    /\ stack = <<>>
    /\ visits = <<>>
    /\ fetches = <<>>
    /\ ret = "none"

\* outside process_form: the form asks for subpages
BatchIdle ==
    /\ form = [urls |-> <<>>, include_subpages |-> Some("true")]
    /\ url_list = <<>>
    /\ idx = 0
    /\ results = <<>>
    /\ seen = <<>>

----------------------------------------------------------------------------
(* Specification of the reducer: parse_html_sync applied to a document.    *)

InitReduce ==
    /\ pc = "parsed"
    /\ \E i \in 1..Len(ReduceDocs) : doc = ReduceDocs[i]
    /\ out = None
    /\ base = None
    /\ ExpandIdle
    /\ BatchIdle

\* spawn_blocking(move || parse_html_sync(&body))
Reduce ==
    /\ pc = "parsed"
    /\ out' = Some(parse_html_sync(doc))
    /\ pc' = "reduced"
    /\ UNCHANGED <<doc, base, walkVars, batchVars>>

NextReduce == Reduce

SpecReduce == InitReduce /\ [][NextReduce]_vars

----------------------------------------------------------------------------
(* The classes of the tag classifier as the specification lists them.      *)

SkipClass == {"script", "style", "meta", "link", "noscript", "svg", "iframe",
              "nav", "footer", "header"}
RetainClass == {"h1", "h2", "h3", "h4", "h5", "h6", "p", "ul", "ol", "li", "a"}
IsTransparent(name) == name \notin SkipClass \cup RetainClass \cup {"table"}

\* the input forest with every Transparent element replaced by its children
RECURSIVE InlineTransparent(_)
InlineTransparent(kids) ==
    IF kids = <<>> THEN <<>>
    ELSE LET k == Head(kids)
             here == IF k.kind = "el" /\ IsTransparent(k.name)
                        THEN InlineTransparent(k.kids)
                     ELSE IF k.kind = "el" /\ k.name \in RetainClass
                        THEN <<El(k.name, k.attrs, InlineTransparent(k.kids))>>
                     ELSE <<k>>
         IN  here \o InlineTransparent(Tail(kids))

\* document order of what survives reduction: retained elements, tables and
\* non-blank texts that are not below a Skip element or a table
Item(kind, tag, text) == [kind |-> kind, tag |-> tag, text |-> text]

RECURSIVE SurvivingItems(_)
SurvivingItems(kids) ==
    IF kids = <<>> THEN <<>>
    ELSE LET k == Head(kids)
             here == IF k.kind = "text"
                        THEN IF \E i \in 1..Len(k.text) : ~IsWhitespace(k.text[i])
                             THEN <<Item("text", "", <<>>)>> ELSE <<>>
                     ELSE IF k.kind # "el" \/ k.name \in SkipClass THEN <<>>
                     ELSE IF k.name = "table" THEN <<Item("table", "", <<>>)>>
                     ELSE IF k.name \in RetainClass
                        THEN <<Item("el", k.name, <<>>)>> \o SurvivingItems(k.kids)
                     ELSE SurvivingItems(k.kids)
         IN  here \o SurvivingItems(Tail(kids))

RECURSIVE OutputItems(_)
OutputItems(cs) ==
    IF cs = <<>> THEN <<>>
    ELSE LET c == Head(cs)
             here == IF c.type = "Table" THEN <<Item("table", "", <<>>)>>
                     ELSE IF c.tag = None THEN <<Item("text", "", <<>>)>>
                     ELSE <<Item("el", c.tag[1], <<>>)>> \o OutputItems(c.children)
         IN  here \o OutputItems(Tail(cs))

\* C6: after reduction no output node stands for a Transparent element and
\* the output is the one obtained when every Transparent element is replaced
\* by its children in place: the surviving elements, tables and texts come in
\* document order, and <div><p>A</p><p>B</p></div> gives two sibling p nodes.
C6_Flattening ==
    pc = "reduced" =>
        /\ out[1] = parse_html_sync(Some(El("html", <<>>, InlineTransparent(doc[1].kids))))
        /\ OutputItems(out[1].children) = SurvivingItems(doc[1].kids)
        /\ (doc[1].kids = FlattenExample =>
              out[1].children =
                  << DomNode(Some("p"), None, None,
                             <<DomNode(None, None, Some(<<"A">>), <<>>, None)>>, None),
                     DomNode(Some("p"), None, None,
                             <<DomNode(None, None, Some(<<"B">>), <<>>, None)>>, None) >>)

C6_Witness ==
    /\ pc = "reduced"
    /\ doc = Some(El("html", <<>>, FlattenExample))
    /\ Len(out[1].children) = 2
    /\ out[1].children[1].tag = Some("p")
    /\ out[1].children[2].tag = Some("p")

\* the input tree without its Skip elements, wherever they sit
RECURSIVE StripSkip(_)
StripSkip(kids) ==
    IF kids = <<>> THEN <<>>
    ELSE LET k == Head(kids)
             here == IF k.kind = "el" /\ k.name \in SkipClass THEN <<>>
                     ELSE IF k.kind = "el" THEN <<El(k.name, k.attrs, StripSkip(k.kids))>>
                     ELSE <<k>>
         IN  here \o StripSkip(Tail(kids))

\* C7: nothing derived from a Skip element or its descendants appears in the
\* reduced output, wherever the element sits (a table cell included): the
\* output is that of the same tree with every Skip element removed.
C7_SkipLeavesNothing ==
    pc = "reduced" =>
        out[1] = parse_html_sync(Some(El("html", <<>>, StripSkip(doc[1].kids))))

\* the value of the first attribute named href, case-insensitively
FirstHref(attrs) ==
    LET hits == SelectSeq(attrs, LAMBDA a : a[1] \in {"href", "HREF", "Href"})
    IN  IF hits = <<>> THEN None ELSE Some(hits[1][2])

RECURSIVE ExpectedLinks(_)
ExpectedLinks(kids) ==
    IF kids = <<>> THEN <<>>
    ELSE LET k == Head(kids)
             here == IF k.kind # "el" \/ k.name \in SkipClass \cup {"table"} THEN <<>>
                     ELSE IF k.name \in RetainClass
                        THEN <<IF k.name = "a" THEN FirstHref(k.attrs) ELSE None>>
                                 \o ExpectedLinks(k.kids)
                     ELSE ExpectedLinks(k.kids)
         IN  here \o ExpectedLinks(Tail(kids))

RECURSIVE OutputLinks(_)
OutputLinks(cs) ==
    IF cs = <<>> THEN <<>>
    ELSE LET c == Head(cs)
             here == IF c.type = "Table" \/ c.tag = None THEN <<>>
                     ELSE <<c.href>> \o OutputLinks(c.children)
         IN  here \o OutputLinks(Tail(cs))

\* C10: the link_target of every retained anchor is the value of its first
\* href attribute (absent when it has none), and that of every other
\* retained element is absent.
C10_FirstHref ==
    pc = "reduced" =>
        OutputLinks(out[1].children) = ExpectedLinks(doc[1].kids)

----------------------------------------------------------------------------
(* Specification of the table extractor: parse_table applied to a table.   *)
(* A table is built from a grid of raw cell texts, table > tbody > tr >    *)
(* cell > text, th in the first row and td below; every grid of at most    *)
(* MaxRows rows of at most MaxCells cells, and the specification's tables. *)

MaxRows == 3
MaxCells == 2

CellTexts == << <<"A">>, <<" ", "x", "\n">> >>

TableOf(grid) ==
    El("table", <<>>, <<El("tbody", <<>>,
        [r \in 1..Len(grid) |->
            El("tr", <<>>,
               [c \in 1..Len(grid[r]) |->
                   El(IF r = 1 THEN "th" ELSE "td", <<>>, <<Txt(grid[r][c])>>)])])>>)

ExampleGrids ==
    << << <<<<"A">>>>, <<<<"x">>, <<"y">>>> >>,
      << <<<<"N">>, <<"G">>>>, <<<<"a">>, <<"3", "0">>>> >>,
      << <<<<"A">>, <<"A">>>>, <<<<"x">>, <<"y">>>> >>,
      << <<<<"c", "o", "l", "1">>>>, <<<<"x">>, <<"y">>>>, <<>>, <<<<"z">>>> >> >>

TableDocs ==
    LET gs == SeqsUpTo(SeqsUpTo(CellTexts, MaxCells), MaxRows) \o ExampleGrids
    IN  [i \in 1..Len(gs) |-> TableOf(gs[i])]

InitTable ==
    /\ pc = "table"
    /\ \E i \in 1..Len(TableDocs) : doc = TableDocs[i]
    /\ out = None
    /\ base = None
    /\ ExpandIdle
    /\ BatchIdle

\* let table_data = parse_table(tbl)
ExtractTable ==
    /\ pc = "table"
    /\ out' = Some(parse_table(doc))
    /\ pc' = "extracted"
    /\ UNCHANGED <<doc, base, walkVars, batchVars>>

NextTable == ExtractTable

SpecTable == InitTable /\ [][NextTable]_vars

\* the rows of the table as lists of cell values, and those that have cells
GridOf(table_el) ==
    LET trs == table_el.kids[1].kids
    IN  [r \in 1..Len(trs) |->
            [c \in 1..Len(trs[r].kids) |-> clean_text(trs[r].kids[c].kids[1].text)]]

CellRows(table_el) == SelectSeq(GridOf(table_el), LAMBDA row : row # <<>>)

\* the key of cell i (from 1) of a data row
KeyOf(headers, i) ==
    IF i <= Len(headers) THEN headers[i]
    ELSE <<"c", "o", "l">> \o <<<<"0", "1", "2", "3", "4", "5", "6", "7", "8", "9">>[i]>>

HeaderAndRowCount ==
    LET rs == CellRows(doc)
    IN  /\ out[1].table_headers = (IF rs = <<>> THEN <<>> ELSE rs[1])
        /\ Len(out[1].rows) = (IF rs = <<>> THEN 0 ELSE Len(rs) - 1)

\* C8 as stated: rows without cells are skipped, the first row with cells is
\* the header, and each later row with cells is one record holding, for every
\* cell i, the cell's value under headers[i] or "col"+i: no value is lost.
C8_EveryCellStored ==
    pc = "extracted" =>
        /\ HeaderAndRowCount
        /\ LET rs == CellRows(doc)
           IN  \A r \in 2..Len(rs) : \A i \in 1..Len(rs[r]) :
                   /\ KeyOf(rs[1], i) \in DOMAIN out[1].rows[r - 1]
                   /\ out[1].rows[r - 1][KeyOf(rs[1], i)] = rs[r][i]

\* C8 amended: the record's keys are the keys of the row's cells, and under
\* each key it holds the value of the last cell of the row with that key;
\* so when the keys of the row's cells are pairwise distinct every cell's
\* value is stored under its own key.
C8_LastCellPerKey ==
    pc = "extracted" =>
        /\ HeaderAndRowCount
        /\ LET rs == CellRows(doc)
           IN  \A r \in 2..Len(rs) :
                   /\ DOMAIN out[1].rows[r - 1] = { KeyOf(rs[1], i) : i \in 1..Len(rs[r]) }
                   /\ \A i \in 1..Len(rs[r]) :
                         (\A j \in (i + 1)..Len(rs[r]) : KeyOf(rs[1], j) # KeyOf(rs[1], i))
                             => out[1].rows[r - 1][KeyOf(rs[1], i)] = rs[r][i]

\* header ["A"], data row ["x", "y"] gives {"A": "x", "col1": "y"}
C8_Witness ==
    /\ pc = "extracted"
    /\ doc = TableOf(<< <<>>, <<<<"A">>>>, <<<<" ", "x", "\n">>, <<"A">>>> >>)
    /\ out[1].table_headers = <<<<"A">>>>
    /\ Len(out[1].rows) = 1
    /\ out[1].rows[1][<<"A">>] = <<"x">>
    /\ out[1].rows[1][<<"c", "o", "l", "1">>] = <<"A">>

----------------------------------------------------------------------------
(* fetch_subpages_for_depth_one.  A node pointer is the path from          *)
(* root_content to the node: step i >= 1 enters children[i], step 0 enters *)
(* link_subpage.  A URL is [scheme, host, path]; an href is a tuple of     *)
(* tokens.                                                                 *)

Url(scheme, host, path) == [scheme |-> scheme, host |-> host, path |-> path]

\* Url::join: Some(url), or None when the reference does not parse
UrlJoin(base_url, href) ==
    IF href = <<>> THEN Some(base_url)
    ELSE IF Head(href) \in {"http://", "https://"}
         THEN IF Len(href) < 2 \/ href[2] = "[" THEN None
              ELSE Some(Url(IF Head(href) = "http://" THEN "http" ELSE "https",
                            href[2], SubSeq(href, 3, Len(href))))
    ELSE IF Head(href) = "mailto:" THEN Some(Url("mailto", "", Tail(href)))
    ELSE Some(Url(base_url.scheme, base_url.host, href))

\* AllowedScheme as it would be without the scheme test
AllowedScheme_Any(scheme) == TRUE

\* ["http","https"].contains(&sub_url.scheme())
AllowedScheme(scheme) == scheme \in {"http", "https"}

\* the URL the visited node is fetched from, if any: tag "a", an href,
\* a join that succeeds and an allowed scheme
FetchTarget(node, base_url) ==
    IF node.tag = Some("a") /\ node.href # None
    THEN LET sub_url == UrlJoin(base_url, node.href[1])
         IN  IF sub_url # None /\ AllowedScheme(sub_url[1].scheme) THEN sub_url ELSE None
    ELSE None

RECURSIVE NodeAt(_, _)
NodeAt(content, ptr) ==
    IF ptr = <<>> THEN content
    ELSE IF Head(ptr) = 0 THEN NodeAt(content.link_subpage[1], Tail(ptr))
    ELSE NodeAt(content.children[Head(ptr)], Tail(ptr))

\* node.link_subpage = Some(Box::new(subdom)) through the pointer
RECURSIVE SetSubpage(_, _, _)
SetSubpage(content, ptr, subdom) ==
    IF ptr = <<>> THEN [content EXCEPT !.link_subpage = Some(subdom)]
    ELSE IF Head(ptr) = 0
         THEN [content EXCEPT !.link_subpage = Some(SetSubpage(@[1], Tail(ptr), subdom))]
    ELSE [content EXCEPT !.children[Head(ptr)] = SetSubpage(@, Tail(ptr), subdom)]

\* for c in node.children.iter_mut() { stack.push(c) } after the pop
StackAfterVisit(ptr, node) ==
    SubSeq(stack, 1, Len(stack) - 1) \o [i \in 1..Len(node.children) |-> ptr \o <<i>>]

\* StackAfterAttach as it would be if the walk went on into the subpage
StackAfterAttach_PushesSubpage(ptr, node) == Append(StackAfterVisit(ptr, node), ptr \o <<0>>)

\* the stack once the subpage is attached: the subpage is not pushed
StackAfterAttach(ptr, node) == StackAfterVisit(ptr, node)

Fetch(ptr, url, outcome, body) ==
    [ptr |-> ptr, url |-> url, outcome |-> outcome, body |-> body]

\* the base URL of the expansion when it is checked on its own
ExpandBase == Url("https", "h", <<"/", "a", "/">>)

\* the fetched bodies, as parsed documents
SubDocs ==
    { Some(El("html", <<>>, <<El("a", <<<<"href", <<"/", "q">> >>>>, <<Txt(<<"S">>)>>)>>)),
      Some(El("html", <<>>, <<El("p", <<>>, <<Txt(<<"T">>)>>)>>)) }

\* if include_subpages { fetch_subpages_for_depth_one(&mut root_content, &parsed_url) }
CallExpand ==
    /\ pc = "reduced"
    /\ form.include_subpages = Some("true")
    /\ pc' = "expanding"
    /\ root' = out
    /\ stack' = << <<>> >>
    /\ UNCHANGED <<doc, out, visits, fetches, ret, base, batchVars>>

\* DomContent::Table(_) => {}
VisitTable ==
    /\ pc = "expanding" /\ stack # <<>>
    /\ LET ptr == stack[Len(stack)]
       IN  /\ NodeAt(root[1], ptr).type = "Table"
           /\ stack' = SubSeq(stack, 1, Len(stack) - 1)
           /\ visits' = Append(visits, ptr)
    /\ UNCHANGED <<pc, doc, out, root, fetches, ret, base, batchVars>>

\* a node that is not fetched: no tag "a", no href, a failed join or a
\* scheme other than http and https
VisitNode ==
    /\ pc = "expanding" /\ stack # <<>>
    /\ LET ptr == stack[Len(stack)]
           node == NodeAt(root[1], ptr)
       IN  /\ node.type = "Node"
           /\ FetchTarget(node, base[1]) = None
           /\ stack' = StackAfterVisit(ptr, node)
           /\ visits' = Append(visits, ptr)
    /\ UNCHANGED <<pc, doc, out, root, fetches, ret, base, batchVars>>

\* VisitAnchorFetchFails as it would be if a failed fetch returned Err
VisitAnchorFetchFails_Aborts ==
    /\ pc = "expanding" /\ stack # <<>>
    /\ LET ptr == stack[Len(stack)]
           node == NodeAt(root[1], ptr)
       IN  /\ node.type = "Node"
           /\ FetchTarget(node, base[1]) # None
           /\ \E e \in {"request_error", "read_error"} :
                 fetches' = Append(fetches, Fetch(ptr, FetchTarget(node, base[1])[1], e, None))
           /\ stack' = StackAfterVisit(ptr, node)
           /\ visits' = Append(visits, ptr)
    /\ ret' = "Err"
    /\ pc' = "returned"
    /\ UNCHANGED <<doc, out, root, base, batchVars>>

\* reqwest::get or r.text() fails: continue
VisitAnchorFetchFails ==
    /\ pc = "expanding" /\ stack # <<>>
    /\ LET ptr == stack[Len(stack)]
           node == NodeAt(root[1], ptr)
       IN  /\ node.type = "Node"
           /\ FetchTarget(node, base[1]) # None
           /\ \E e \in {"request_error", "read_error"} :
                 fetches' = Append(fetches, Fetch(ptr, FetchTarget(node, base[1])[1], e, None))
           /\ stack' = StackAfterVisit(ptr, node)
           /\ visits' = Append(visits, ptr)
    /\ UNCHANGED <<pc, doc, out, root, ret, base, batchVars>>

\* the body arrives but the blocking parse task ends in a JoinError:
\* map_err(..)? returns Err from the function
VisitAnchorJoinError ==
    /\ pc = "expanding" /\ stack # <<>>
    /\ LET ptr == stack[Len(stack)]
           node == NodeAt(root[1], ptr)
       IN  /\ node.type = "Node"
           /\ FetchTarget(node, base[1]) # None
           /\ \E body \in SubDocs :
                 fetches' = Append(fetches,
                                   Fetch(ptr, FetchTarget(node, base[1])[1], "join_error", body))
           /\ stack' = StackAfterVisit(ptr, node)
           /\ visits' = Append(visits, ptr)
    /\ ret' = "Err"
    /\ pc' = "returned"
    /\ UNCHANGED <<doc, out, root, base, batchVars>>

\* the body arrives and is reduced: node.link_subpage = Some(subdom)
VisitAnchorAttach ==
    /\ pc = "expanding" /\ stack # <<>>
    /\ LET ptr == stack[Len(stack)]
           node == NodeAt(root[1], ptr)
       IN  /\ node.type = "Node"
           /\ FetchTarget(node, base[1]) # None
           /\ \E body \in SubDocs :
                 /\ fetches' = Append(fetches,
                                      Fetch(ptr, FetchTarget(node, base[1])[1], "ok", body))
                 /\ root' = Some(SetSubpage(root[1], ptr, parse_html_sync(body)))
           /\ stack' = StackAfterAttach(ptr, node)
           /\ visits' = Append(visits, ptr)
    /\ UNCHANGED <<pc, doc, out, ret, base, batchVars>>

\* while let Some(ptr) = stack.pop() ends; Ok(())
ReturnOk ==
    /\ pc = "expanding" /\ stack = <<>>
    /\ ret' = "Ok"
    /\ pc' = "returned"
    /\ UNCHANGED <<doc, out, root, stack, visits, fetches, base, batchVars>>

----------------------------------------------------------------------------
(* Specification of the expansion: a document is reduced and expanded.     *)
(* The root documents are every forest of at most ExpandNodes nodes over   *)
(* anchors of each kind of href, a paragraph that carries an href          *)
(* attribute, a text and a table that holds an anchor.                     *)

ExpandNodes == 3

RelHref == <<"/", "p">>
MailtoHref == <<"mailto:", "x">>
BadHref == <<"http://", "[">>

\* <table><tr><td><a href="/p">k</a></td></tr></table>
LinkTable ==
    El("table", <<>>, <<El("tr", <<>>, <<El("td", <<>>,
        <<El("a", <<<<"href", RelHref>>>>, <<Txt(<<"k">>)>>)>>)>>)>>)

ExpandLeaves == << Txt(<<"A">>), LinkTable >>

ExpandInner ==
    << <<"p", <<<<"href", RelHref>>>> >>,
       <<"a", <<<<"href", RelHref>>>> >>,
       <<"a", <<<<"href", MailtoHref>>>> >>,
       <<"a", <<<<"href", BadHref>>>> >>,
       <<"a", <<>> >> >>

ExpandDocs ==
    LET fs == ForestsUpTo(ExpandLeaves, ExpandInner, ExpandNodes)
    IN  [i \in 1..Len(fs) |-> Some(El("html", <<>>, fs[i]))]

InitExpand ==
    /\ pc = "parsed"
    /\ \E i \in 1..Len(ExpandDocs) : doc = ExpandDocs[i]
    /\ out = None
    /\ base = Some(ExpandBase)
    /\ ExpandIdle
    /\ BatchIdle

NextExpand ==
    \/ Reduce
    \/ CallExpand
    \/ VisitTable
    \/ VisitNode
    \/ VisitAnchorFetchFails
    \/ VisitAnchorJoinError
    \/ VisitAnchorAttach
    \/ ReturnOk

SpecExpand == InitExpand /\ [][NextExpand]_vars

----------------------------------------------------------------------------
(* Properties of the expansion.  out holds the tree as reduced, root the   *)
(* tree as the expansion has changed it so far.                            *)

\* the pointers of a tree's own contents: children only, tables included
RECURSIVE PtrsBelow(_, _)
PtrsBelow(content, ptr) ==
    {ptr} \cup
    (IF content.type = "Node"
     THEN UNION { PtrsBelow(content.children[i], ptr \o <<i>>) :
                    i \in 1..Len(content.children) }
     ELSE {})

NodePtrs(content) == { p \in PtrsBelow(content, <<>>) : NodeAt(content, p).type = "Node" }

Count(seq, x) == Cardinality({ i \in 1..Len(seq) : seq[i] = x })

FetchesOf(ptr) == { i \in 1..Len(fetches) : fetches[i].ptr = ptr }

\* an anchor whose href resolves against the base URL to http or https
Resolves(node) ==
    node.tag = Some("a") /\ node.href # None /\ node.href[1] \notin {MailtoHref, BadHref}

C2_EveryNodeVisitedOnce ==
    pc = "returned" =>
        /\ \A p \in NodePtrs(out[1]) : Count(visits, p) = 1
        /\ \A i \in 1..Len(visits) : visits[i] \in PtrsBelow(out[1], <<>>)
        /\ \A i \in 1..Len(fetches) : fetches[i].ptr \in NodePtrs(out[1])

RECURSIVE NoSubpage(_)
NoSubpage(content) ==
    content.type = "Node" =>
        /\ content.link_subpage = None
        /\ \A i \in 1..Len(content.children) : NoSubpage(content.children[i])

\* C3: in every state no node of an attached subpage has a linked_subpage
\* of its own, and every fetch was issued for a node of the root tree.
C3_OneHop ==
    root # None =>
        /\ \A p \in NodePtrs(root[1]) :
              NodeAt(root[1], p).link_subpage # None =>
                  NoSubpage(NodeAt(root[1], p).link_subpage[1])
        /\ \A i \in 1..Len(fetches) : fetches[i].ptr \in NodePtrs(out[1])

\* a subpage that holds an anchor of its own is attached, and the call returns
C3_Witness ==
    /\ pc = "returned"
    /\ \E p \in NodePtrs(root[1]) :
          LET sub == NodeAt(root[1], p).link_subpage
          IN  /\ sub # None
              /\ Len(sub[1].children) = 1
              /\ sub[1].children[1].tag = Some("a")
              /\ sub[1].children[1].href # None
              /\ sub[1].children[1].link_subpage = None

\* C4: a visited anchor without href, or whose href does not resolve or
\* resolves to a scheme other than http and https, is never fetched and
\* keeps linked_subpage absent.
C4_NoFetchUnlessHttp ==
    \A k \in 1..Len(visits) :
        LET node == NodeAt(root[1], visits[k])
        IN  (node.type = "Node" /\ node.tag = Some("a") /\ ~Resolves(node)) =>
                /\ FetchesOf(visits[k]) = {}
                /\ node.link_subpage = None

\* anchors with a mailto href, an unparsable href and no href were visited
C4_Witness ==
    /\ pc = "returned"
    /\ \A h \in {Some(MailtoHref), Some(BadHref), None} :
          \E k \in 1..Len(visits) :
              LET node == NodeAt(root[1], visits[k])
              IN  node.type = "Node" /\ node.tag = Some("a") /\ node.href = h

RECURSIVE OnlyAnchorsLinked(_)
OnlyAnchorsLinked(content) ==
    content.type = "Node" =>
        /\ (content.tag # None /\ content.tag # Some("a")) =>
              (content.href = None /\ content.link_subpage = None)
        /\ \A i \in 1..Len(content.children) : OnlyAnchorsLinked(content.children[i])
        /\ content.link_subpage # None => OnlyAnchorsLinked(content.link_subpage[1])

\* C9: in the reduced tree and in every state of the expansion, a node with
\* a tag other than "a" has neither link_target nor linked_subpage.
C9_OnlyAnchorsLinked ==
    /\ out # None => OnlyAnchorsLinked(out[1])
    /\ root # None => OnlyAnchorsLinked(root[1])

\* a paragraph whose element carried an href sits beside an expanded anchor
C9_Witness ==
    /\ pc = "returned"
    /\ ret = "Ok"
    /\ Len(doc[1].kids) > 0
    /\ doc[1].kids[1].name = "p"
    /\ doc[1].kids[1].attrs # <<>>
    /\ \E p \in NodePtrs(root[1]) : NodeAt(root[1], p).link_subpage # None

----------------------------------------------------------------------------
(* process_form.  The urls field is a tuple of tokens: line feed,          *)
(* carriage return, space, the text of an absolute URL and a text that is  *)
(* no URL.                                                                 *)

MaxUrlsLen == 4

UrlToken == "https://h/"
FormTokens == <<"\n", "\r", " ", UrlToken, "x">>

Forms ==
    Product(SeqsUpTo(FormTokens, MaxUrlsLen), <<None, Some("true")>>,
            LAMBDA u, i : [urls |-> u, include_subpages |-> i])

\* form.urls.replace('\r', "")
RemoveCr(text) == SelectSeq(text, LAMBDA c : c # "\r")

\* lines.split('\n')
RECURSIVE Split(_)
Split(text) ==
    IF \A i \in 1..Len(text) : text[i] # "\n" THEN <<text>>
    ELSE LET k == CHOOSE i \in 1..Len(text) :
                      text[i] = "\n" /\ \A j \in 1..(i - 1) : text[j] # "\n"
         IN  <<SubSeq(text, 1, k - 1)>> \o Split(SubSeq(text, k + 1, Len(text)))

\* .map(|s| s.trim()).filter(|s| !s.is_empty()).collect()
UrlList(urls) ==
    LET pieces == Split(RemoveCr(urls))
        trimmed == [i \in 1..Len(pieces) |-> Trim(pieces[i])]
    IN  SelectSeq(trimmed, LAMBDA l : l # <<>>)

\* Url::parse(url_str)
UrlParse(url_str) ==
    IF url_str # <<>> /\ Head(url_str) = UrlToken
    THEN Some(Url("https", "h", <<"/">> \o Tail(url_str)))
    ELSE None

\* the bodies of the root pages, as parsed documents
RootBodies ==
    { Some(El("html", <<>>, <<El("a", <<<<"href", RelHref>>>>, <<Txt(<<"R">>)>>), LinkTable>>)),
      Some(El("html", <<>>, <<El("p", <<>>, <<Txt(<<"T">>)>>)>>)) }

ErrorNode(tag, text) == DomNode(Some(tag), None, Some(text), <<>>, None)

Seen(url_str, outcome, body, log) ==
    [url |-> url_str, outcome |-> outcome, body |-> body, fetches |-> log]

\* what one item leaves behind: its entry is pushed and the loop goes on
NextItem(entry, note) ==
    /\ results' = Append(results, entry)
    /\ seen' = Append(seen, note)
    /\ idx' = idx + 1
    /\ pc' = "loop"
    /\ doc' = None /\ out' = None /\ base' = None
    /\ root' = None /\ stack' = <<>> /\ visits' = <<>> /\ fetches' = <<>> /\ ret' = "none"
    /\ UNCHANGED <<form, url_list>>

Init ==
    /\ pc = "form"
    /\ \E i \in 1..Len(Forms) : form = Forms[i]
    /\ url_list = <<>> /\ idx = 0 /\ results = <<>> /\ seen = <<>>
    /\ doc = None /\ out = None /\ base = None
    /\ ExpandIdle

\* the lines of the form are split, trimmed and filtered
SplitLines ==
    /\ pc = "form"
    /\ url_list' = UrlList(form.urls)
    /\ pc' = "loop"
    /\ UNCHANGED <<doc, out, base, walkVars, form, idx, results, seen>>

\* let Ok(parsed_url) = Url::parse(url_str) else { push ErrorURL; continue }
ItemParseError ==
    /\ pc = "loop" /\ idx < Len(url_list)
    /\ LET url_str == url_list[idx + 1]
       IN  /\ UrlParse(url_str) = None
           /\ NextItem(ErrorNode("ErrorURL", <<"URL parse error: ">> \o url_str),
                       Seen(url_str, "parse_error", None, <<>>))

\* ItemFetchError as it would be if a failed root fetch ended the loop
ItemFetchError_Stops ==
    /\ pc = "loop" /\ idx < Len(url_list)
    /\ LET url_str == url_list[idx + 1]
       IN  /\ UrlParse(url_str) # None
           /\ \E e \in {"request_error", "read_error"} :
                 /\ results' = Append(results, ErrorNode("ErrorFetch", <<"Request error: ", e>>))
                 /\ seen' = Append(seen, Seen(url_str, e, None, <<>>))
    /\ idx' = Len(url_list)
    /\ UNCHANGED <<pc, doc, out, base, walkVars, form, url_list>>

\* reqwest::get or resp.text() fails: push ErrorFetch; continue
ItemFetchError ==
    /\ pc = "loop" /\ idx < Len(url_list)
    /\ LET url_str == url_list[idx + 1]
       IN  /\ UrlParse(url_str) # None
           /\ \E e \in {"request_error", "read_error"} :
                 NextItem(ErrorNode("ErrorFetch",
                                    <<IF e = "request_error" THEN "Request error: "
                                      ELSE "Error reading response: ", e>>),
                          Seen(url_str, e, None, <<>>))

\* the body of the root page arrives
ItemFetched ==
    /\ pc = "loop" /\ idx < Len(url_list)
    /\ UrlParse(url_list[idx + 1]) # None
    /\ \E body \in RootBodies : doc' = body
    /\ base' = UrlParse(url_list[idx + 1])
    /\ pc' = "parsed"
    /\ UNCHANGED <<out, walkVars, batchVars>>

\* spawn_blocking(parse_html_sync) ends in a JoinError: push ErrorSpawnBlock; continue
ItemSpawnError ==
    /\ pc = "parsed"
    /\ NextItem(ErrorNode("ErrorSpawnBlock", <<"spawn_blocking error: ", "join_error">>),
                Seen(url_list[idx + 1], "join_error", doc, <<>>))

\* include_subpages is off: results.push(root_content)
PushReduced ==
    /\ pc = "reduced"
    /\ form.include_subpages # Some("true")
    /\ NextItem(out[1], Seen(url_list[idx + 1], "ok", doc, <<>>))

\* let _ = fetch_subpages_for_depth_one(..).await; results.push(root_content)
PushExpanded ==
    /\ pc = "returned"
    /\ NextItem(root[1], Seen(url_list[idx + 1], "ok", doc, fetches))

\* the for loop ends and the response is built
Respond ==
    /\ pc = "loop" /\ idx = Len(url_list)
    /\ pc' = "responded"
    /\ UNCHANGED <<doc, out, base, walkVars, batchVars>>

Next ==
    \/ SplitLines
    \/ ItemParseError
    \/ ItemFetchError
    \/ ItemFetched
    \/ Reduce
    \/ ItemSpawnError
    \/ PushReduced
    \/ CallExpand
    \/ VisitTable
    \/ VisitNode
    \/ VisitAnchorFetchFails
    \/ VisitAnchorJoinError
    \/ VisitAnchorAttach
    \/ ReturnOk
    \/ PushExpanded
    \/ Respond

Spec == Init /\ [][Next]_vars

----------------------------------------------------------------------------
(* Properties of the batch.                                                *)

\* the lines of the urls field, carriage returns dropped
RECURSIVE LinesOf(_, _)
LinesOf(text, line) ==
    IF text = <<>> THEN <<line>>
    ELSE IF Head(text) = "\n" THEN <<line>> \o LinesOf(Tail(text), <<>>)
    ELSE IF Head(text) = "\r" THEN LinesOf(Tail(text), line)
    ELSE LinesOf(Tail(text), Append(line, Head(text)))

\* a line without the spaces around it
Unpadded(line) ==
    LET inked == { i \in 1..Len(line) : line[i] # " " }
    IN  IF inked = {} THEN <<>>
        ELSE SubSeq(line, CHOOSE i \in inked : \A j \in inked : i <= j,
                          CHOOSE i \in inked : \A j \in inked : i >= j)

\* the non-empty input lines, in input order
InputLines(urls) ==
    LET ls == LinesOf(urls, <<>>)
    IN  SelectSeq([i \in 1..Len(ls) |-> Unpadded(ls[i])], LAMBDA l : l # <<>>)

\* the reduced body with the subpage of every fetch that succeeded
RECURSIVE WithSubpages(_, _)
WithSubpages(content, log) ==
    IF log = <<>> THEN content
    ELSE WithSubpages(IF Head(log).outcome = "ok"
                      THEN SetSubpage(content, Head(log).ptr, parse_html_sync(Head(log).body))
                      ELSE content,
                      Tail(log))

\* what a URL of the batch gives when it is alone, from what the network
\* answered for it
IsErrorEntry(entry, tag) ==
    /\ entry.type = "Node" /\ entry.tag = Some(tag) /\ entry.text # None
    /\ entry.href = None /\ entry.children = <<>> /\ entry.link_subpage = None

EntryAlone(entry, line, note) ==
    /\ note.url = line
    /\ IF Head(line) # UrlToken THEN IsErrorEntry(entry, "ErrorURL")
       ELSE IF note.outcome \in {"request_error", "read_error"}
            THEN IsErrorEntry(entry, "ErrorFetch")
       ELSE IF note.outcome = "join_error" THEN IsErrorEntry(entry, "ErrorSpawnBlock")
       ELSE /\ note.outcome = "ok"
            /\ entry = (IF form.include_subpages = Some("true")
                        THEN WithSubpages(parse_html_sync(note.body), note.fetches)
                        ELSE parse_html_sync(note.body))

\* C5: when the response is built the result list has one entry per
\* non-empty input line, in input order; the entry of a line whose parse or
\* root fetch failed is an error node, and the entry of every other line is
\* the reduced (and, when asked, expanded) page it gives alone.
C5_BatchItemsIndependent ==
    pc = "responded" =>
        LET lines == InputLines(form.urls)
        IN  /\ Len(results) = Len(lines)
            /\ Len(seen) = Len(lines)
            /\ \A i \in 1..Len(lines) : EntryAlone(results[i], lines[i], seen[i])

\* a URL whose fetch failed stands before one that was expanded
C5_Witness ==
    /\ pc = "responded"
    /\ Len(results) = 2
    /\ results[1].tag = Some("ErrorFetch")
    /\ results[2].tag = Some("html")
    /\ Len(results[2].children) = 2
    /\ results[2].children[1].link_subpage # None

====
